---- MODULE Spec2Model ----
(***************************************************************************)
(* Model of the cron daemon of src/main.py: main() loads two JSON          *)
(* configuration files, registers the signal handlers, builds an           *)
(* APScheduler BackgroundScheduler with one CronTrigger job per record of  *)
(* cron.json (setup_scheduler), starts it and sleeps.  Every due job is    *)
(* submitted to the scheduler's default thread pool, whose workers run     *)
(* execute_cron_event -> run_task.  shutdown_handler stops the scheduler   *)
(* with wait=True and exits with code 0.                                   *)
(*                                                                         *)
(* Time is counted in whole minutes from BaseInstant.  The scheduler       *)
(* thread is taken to wake up on time: a minute does not pass while a job  *)
(* that is due has not been processed.                                     *)
(***************************************************************************)
EXTENDS Integers, Sequences, FiniteSets, TLC

\* ---------------------------------------------------------------- bounds
\* Last minute of the modelled run (minutes are counted from BaseInstant).
MaxMinute == 3
\* Longest list of records drawn for cron.json in the registration scenarios.
MaxRecords == 3

\* ------------------------------------------------------ program constants
\* Default size of the thread pool of BackgroundScheduler().
max_workers == 10
\* Default max_instances of a job added by scheduler.add_job(...).
max_instances == 1

\* -------------------------------------------------------------- calendar
IsLeap(y) == (y % 4 = 0 /\ y % 100 # 0) \/ y % 400 = 0

DaysInMonth(y, m) ==
    IF m = 2 THEN (IF IsLeap(y) THEN 29 ELSE 28)
    ELSE IF m \in {4, 6, 9, 11} THEN 30 ELSE 31

\* Minute 0 of the model: Sunday 2023-12-31 23:58.  weekday is Python's
\* datetime.weekday(): Monday = 0 ... Sunday = 6.
BaseInstant ==
    [minute |-> 58, hour |-> 23, day |-> 31, month |-> 12, year |-> 2023,
     weekday |-> 6]

RECURSIVE AddDays(_, _)
AddDays(d, n) ==
    IF n = 0 THEN d
    ELSE LET last == d.day = DaysInMonth(d.year, d.month)
             nd   == IF ~last THEN [d EXCEPT !.day = d.day + 1]
                     ELSE IF d.month = 12
                          THEN [d EXCEPT !.day = 1, !.month = 1,
                                         !.year = d.year + 1]
                          ELSE [d EXCEPT !.day = 1, !.month = d.month + 1]
         IN AddDays([nd EXCEPT !.weekday = (d.weekday + 1) % 7], n - 1)

\* The calendar instant of model minute t.
InstantAt(t) ==
    LET total == BaseInstant.hour * 60 + BaseInstant.minute + t
        date  == AddDays(BaseInstant, total \div 1440)
    IN [date EXCEPT !.minute = total % 60, !.hour = (total % 1440) \div 60]

\* ------------------------------------------------------ cron expressions
\* A cron expression is a string; it is modelled as a sequence of tokens,
\* each a blank (SP) or one item of a field.  Adjacent items form one
\* comma-separated field: "0,30 9 * * 1" is
\* <<V(0), V(30), SP, V(9), SP, Star, SP, Star, SP, V(1)>>.
SP == [t |-> "sp", first |-> 0, last |-> 0, step |-> 1]
Star == [t |-> "all", first |-> 0, last |-> 0, step |-> 1]
V(n) == [t |-> "range", first |-> n, last |-> n, step |-> 1]
Rng(a, b) == [t |-> "range", first |-> a, last |-> b, step |-> 1]
Every(n) == [t |-> "all", first |-> 0, last |-> 0, step |-> n]

\* str.split(): the maximal runs of non-blank tokens, in order.
RECURSIVE split(_)
split(s) ==
    IF s = <<>> THEN <<>>
    ELSE IF Head(s) = SP THEN split(Tail(s))
    ELSE LET rest == split(Tail(s))
         IN IF Len(s) > 1 /\ s[2] # SP
            THEN <<(<<Head(s)>> \o Head(rest))>> \o Tail(rest)
            ELSE <<(<<Head(s)>>)>> \o rest

\* Fields 1..5 are minute, hour, day, month, day_of_week.
MIN_VALUES == <<0, 0, 1, 1, 0>>
MAX_VALUES == <<59, 23, 31, 12, 6>>

\* An item the field at position i accepts (anything else is a ValueError
\* of the CronTrigger constructor).
ItemValid(i, it) ==
    /\ it.t \in {"all", "range"}
    /\ it.step >= 1
    /\ it.t = "range" =>
          /\ it.first <= it.last
          /\ it.first >= MIN_VALUES[i]
          /\ it.last <= MAX_VALUES[i]

\* Variant of CronTriggerValid: a trigger constructor that checks no field
\* against its domain.
CronTriggerUnchecked(parts) == TRUE

\* CronTrigger(minute=, hour=, day=, month=, day_of_week=) on the five
\* parts: TRUE when the constructor returns, FALSE when it raises.
CronTriggerValid(parts) ==
    \A i \in 1..5 : \A k \in 1..Len(parts[i]) : ItemValid(i, parts[i][k])

FieldValue(i, inst) ==
    CASE i = 1 -> inst.minute
      [] i = 2 -> inst.hour
      [] i = 3 -> inst.day
      [] i = 4 -> inst.month
      [] i = 5 -> inst.weekday

ItemMatches(i, it, v) ==
    IF it.t = "all" THEN (v - MIN_VALUES[i]) % it.step = 0
    ELSE it.first <= v /\ v <= it.last /\ (v - it.first) % it.step = 0

\* The trigger fires at an instant when every one of its five fields
\* accepts the instant's value.
TriggerMatches(parts, inst) ==
    \A i \in 1..5 :
        \E k \in 1..Len(parts[i]) : ItemMatches(i, parts[i][k], FieldValue(i, inst))

\* Beyond the modelled run.
Never == MaxMinute + 1

\* trigger.get_next_fire_time: the first minute after `after` at which the
\* trigger fires (Never when it is later than the modelled run).
NextFireAfter(parts, after) ==
    LET c == {m \in (after + 1)..MaxMinute : TriggerMatches(parts, InstantAt(m))}
    IN IF c = {} THEN Never ELSE CHOOSE m \in c : \A n \in c : m <= n

\* ---------------------------------------------------- pluggable units
\* What is found at the path of an event-decision unit: "absent" (no such
\* file), "loaderr" (the file raises while it is loaded), "notaskid" (no
\* task_id function), or a task_id function that "returns" tid, returns
\* None ("none"), "raises", or never returns ("hangs").
EventUnit(path) ==
    CASE path = "event/example.py"  -> [kind |-> "returns", tid |-> "example"]
      [] path = "event/ghost.py"    -> [kind |-> "returns", tid |-> "ghost"]
      [] path = "event/failing.py"  -> [kind |-> "returns", tid |-> "failing"]
      [] path = "event/stuck.py"    -> [kind |-> "returns", tid |-> "stuck"]
      [] path = "event/nowhere.py"  -> [kind |-> "returns", tid |-> "nowhere"]
      [] path = "event/gone.py"     -> [kind |-> "returns", tid |-> "gone"]
      [] path = "event/corrupt.py"  -> [kind |-> "returns", tid |-> "corrupt"]
      [] path = "event/norun.py"    -> [kind |-> "returns", tid |-> "norun"]
      [] path = "event/empty.py"    -> [kind |-> "returns", tid |-> ""]
      [] path = "event/none.py"     -> [kind |-> "none", tid |-> ""]
      [] path = "event/raises.py"   -> [kind |-> "raises", tid |-> ""]
      [] path = "event/hangs.py"    -> [kind |-> "hangs", tid |-> ""]
      [] path = "event/broken.py"   -> [kind |-> "loaderr", tid |-> ""]
      [] path = "event/notaskid.py" -> [kind |-> "notaskid", tid |-> ""]
      [] OTHER                      -> [kind |-> "absent", tid |-> ""]

\* What is found at the location of a task unit: "absent", "loaderr",
\* "norun" (no run function), or a run function that returns ("ok", as
\* task/example-task.py does), "raises", or never returns ("hangs").
TaskUnit(location) ==
    CASE location = "task/example-task.py" -> "ok"
      [] location = "task/failing.py"      -> "raises"
      [] location = "task/stuck.py"        -> "hangs"
      [] location = "task/broken.py"       -> "loaderr"
      [] location = "task/norun.py"        -> "norun"
      [] OTHER                             -> "absent"

\* task-definition.json: task id -> record with the unit's location
\* (has_location is FALSE when the record has no 'location' key).
TaskCatalog ==
    [tid \in {"example", "failing", "stuck", "gone", "corrupt", "norun", "nowhere"} |->
        CASE tid = "example" -> [has_location |-> TRUE, location |-> "task/example-task.py"]
          [] tid = "failing" -> [has_location |-> TRUE, location |-> "task/failing.py"]
          [] tid = "stuck"   -> [has_location |-> TRUE, location |-> "task/stuck.py"]
          [] tid = "gone"    -> [has_location |-> TRUE, location |-> "task/gone.py"]
          [] tid = "corrupt" -> [has_location |-> TRUE, location |-> "task/broken.py"]
          [] tid = "norun"   -> [has_location |-> TRUE, location |-> "task/norun.py"]
          [] tid = "nowhere" -> [has_location |-> FALSE, location |-> ""]]

\* A task-definition.json one of whose keys is the empty string.
EmptyKeyCatalog ==
    [tid \in DOMAIN TaskCatalog \cup {""} |->
        IF tid = "" THEN [has_location |-> TRUE, location |-> "task/example-task.py"]
        ELSE TaskCatalog[tid]]

\* ------------------------------------------------- records of cron.json
\* One element of the list in cron.json.  is_dict is FALSE for an element
\* that is not a JSON object; has_cron / has_ref say whether the keys
\* 'cron' and 'task-reference' are present.
Record(cron, ref) ==
    [is_dict |-> TRUE, has_cron |-> TRUE, cron |-> cron, has_ref |-> TRUE, ref |-> ref]
NoCronRecord(ref) ==
    [is_dict |-> TRUE, has_cron |-> FALSE, cron |-> <<>>, has_ref |-> TRUE, ref |-> ref]
NoRefRecord(cron) ==
    [is_dict |-> TRUE, has_cron |-> TRUE, cron |-> cron, has_ref |-> FALSE, ref |-> ""]
NotADict ==
    [is_dict |-> FALSE, has_cron |-> FALSE, cron |-> <<>>, has_ref |-> FALSE, ref |-> ""]

\* Five fields from five items, one blank between two fields.
Expr(a, b, c, d, e) == <<a, SP, b, SP, c, SP, d, SP, e>>
EveryMinute == Expr(Star, Star, Star, Star, Star)

\* ------------------------------------------------------ setup_scheduler
\* job.get('cron') / job.get('task-reference'): None for a missing key.
\* `not x` holds of None and of the empty string.
InvalidDefinition(job) ==
    \/ ~job.has_cron \/ job.cron = <<>>
    \/ ~job.has_ref \/ job.ref = ""

\* Variant of JobId: an identity that does not depend on the position.
JobIdShared(idx) == 0

\* id=f"cron_job_{idx}": the identity of a job is its position in cron.json.
JobId(idx) == idx

\* One turn of the loop over enumerate(cron_jobs); acc is the scheduler
\* being built (its pending jobs), the errors logged so far, and whether an
\* exception has left the function.
SetupStep(acc, idx, job) ==
    IF acc.raised THEN acc
    ELSE IF ~job.is_dict THEN [acc EXCEPT !.raised = TRUE]
    ELSE IF InvalidDefinition(job)
         THEN [acc EXCEPT !.errors = @ \cup {<<"invalid_definition", idx>>}]
    ELSE LET parts == split(job.cron) IN
         IF Len(parts) # 5
         THEN [acc EXCEPT !.errors = @ \cup {<<"invalid_format", idx>>}]
         ELSE IF ~CronTriggerValid(parts)
         THEN [acc EXCEPT !.errors = @ \cup {<<"add_job_error", idx>>}]
         ELSE [acc EXCEPT !.pending =
                  Append(@, [id |-> JobId(idx), parts |-> parts, ref |-> job.ref])]

RECURSIVE SetupFrom(_, _, _)
SetupFrom(cron_jobs, k, acc) ==
    IF k > Len(cron_jobs) THEN acc
    ELSE SetupFrom(cron_jobs, k + 1, SetupStep(acc, k - 1, cron_jobs[k]))

\* setup_scheduler(cron_jobs, task_definitions).
setup_scheduler(cron_jobs) ==
    SetupFrom(cron_jobs, 1, [raised |-> FALSE, pending |-> <<>>, errors |-> {}])

\* ------------------------------------------------------------ the state
VARIABLES
    cfg,              \* the two configuration files on disk
    pc,               \* where the main thread is
    cron_jobs,        \* main's cron_jobs, once loaded
    task_definitions, \* main's task_definitions, once loaded
    scheduler,        \* the global: "None" or "created"
    state,            \* the scheduler's state: "STOPPED" or "RUNNING"
    pending,          \* jobs added before start()
    jobstore,         \* job id -> [parts, ref, next_run_time]
    instances,        \* job id -> number of its runs submitted and not finished
    queue,            \* work items submitted to the pool and not yet taken
    running,          \* the calls of execute_cron_event in progress
    now,              \* the current minute
    start_time,       \* the minute of scheduler.start() (-1 before)
    log,              \* the error records logged: <<kind, index>> by
                      \* setup_scheduler, <<kind, job, minute>> otherwise
    exit_code,        \* the argument of sys.exit (-1: not called)
    signals,          \* number of signals shutdown_handler has handled
    fires,            \* <<job, minute>> -> runs submitted to the pool
    started,          \* <<job, minute>> -> calls of execute_cron_event begun
    late_starts,      \* calls of execute_cron_event begun after a signal was handled
    skipped,          \* <<job, minute>> of runs dropped: max_instances reached
    execs,            \* <<job, minute>> -> calls of a task unit's run()
    caught,           \* <<job, minute>> whose task_id() raised, caught and logged
    escaped,          \* <<job, minute>> whose exception left execute_cron_event
    run_task_calls,   \* <<job, minute>> -> the calls of run_task: [tid, catalog]
    loads,            \* <<job, minute, role>> of the calls of load_module_from_file
    sys_modules       \* module objects kept by the loader: <<path, module>>

vars == <<cfg, pc, cron_jobs, task_definitions, scheduler, state, pending,
          jobstore, instances, queue, running, now, start_time, log,
          exit_code, signals, fires, started, late_starts, skipped, execs,
          caught, escaped, run_task_calls, loads, sys_modules>>

\* The positions of cron.json (the idx of enumerate) and the minutes of a run.
Indexes == 0..(Len(cfg.cron_jobs) - 1)
Minutes == 0..MaxMinute
Slots == Indexes \X Minutes

\* ---------------------------------------------------------------- main
\* Variant of load_json_config: the error is logged and an empty
\* configuration is returned instead of the exception being raised again.
load_json_config_swallowing(file, content) ==
    [raised |-> FALSE, value |-> IF file = "ok" THEN content ELSE <<>>]

\* load_json_config(file_path): the parsed content, or the exception of a
\* missing file / of invalid JSON, logged and raised again.
load_json_config(file, content) ==
    IF file = "ok" THEN [raised |-> FALSE, value |-> content]
    ELSE [raised |-> TRUE, value |-> <<>>]

\* sys.exit(0) of shutdown_handler; sys.exit(1) of main's `except Exception`.
GracefulExit == 0
FatalExit == 1

\* main, up to "Signal handlers registered": both files are loaded; an
\* exception of either load is main's fatal error.
LoadConfig ==
    /\ pc = "init"
    /\ LET c == load_json_config(cfg.cron_file, cfg.cron_jobs)
           t == load_json_config(cfg.task_file, cfg.task_definitions)
       IN IF c.raised \/ t.raised
          THEN /\ log' = log \cup {<<"config_error", -1, now>>, <<"fatal", -1, now>>}
               /\ exit_code' = FatalExit
               /\ pc' = "exiting"
               /\ UNCHANGED <<cron_jobs, task_definitions>>
          ELSE /\ cron_jobs' = c.value
               /\ task_definitions' = t.value
               /\ pc' = "setup"
               /\ UNCHANGED <<log, exit_code>>
    /\ UNCHANGED <<cfg, scheduler, state, pending, jobstore, instances, queue,
                   running, now, start_time, signals, fires, started,
                   late_starts, skipped, execs, caught, escaped,
                   loads, sys_modules, run_task_calls>>

\* scheduler = setup_scheduler(cron_jobs, task_definitions): the global is
\* assigned when the call returns; an exception that leaves it is fatal.
SetupScheduler ==
    /\ pc = "setup"
    /\ LET r == setup_scheduler(cron_jobs)
       IN IF r.raised
          THEN /\ log' = log \cup r.errors \cup {<<"fatal", -1, now>>}
               /\ exit_code' = FatalExit
               /\ pc' = "exiting"
               /\ UNCHANGED <<scheduler, pending>>
          ELSE /\ log' = log \cup r.errors
               /\ pending' = r.pending
               /\ scheduler' = "created"
               /\ pc' = "start"
               /\ UNCHANGED exit_code
    /\ UNCHANGED <<cfg, cron_jobs, task_definitions, state, jobstore, instances,
                   queue, running, now, start_time, signals, fires, started,
                   late_starts, skipped, execs, caught, escaped,
                   loads, sys_modules, run_task_calls>>

\* add_job(..., id=..., replace_existing=True) carried out by start(): a job
\* whose id is in the store replaces that job.
RECURSIVE RealAddJobs(_, _, _)
RealAddJobs(store, jobs, t) ==
    IF jobs = <<>> THEN store
    ELSE LET j == Head(jobs)
             e == [parts |-> j.parts, ref |-> j.ref,
                   next_run_time |-> NextFireAfter(j.parts, t)]
         IN RealAddJobs([i \in DOMAIN store \cup {j.id} |->
                            IF i = j.id THEN e ELSE store[i]], Tail(jobs), t)

\* scheduler.start(): the pending jobs enter the job store, each with its
\* first fire time after the present instant, and the scheduler thread runs.
StartScheduler ==
    /\ pc = "start"
    /\ jobstore' = RealAddJobs(jobstore, pending, now)
    /\ instances' = [i \in DOMAIN jobstore' |-> 0]
    /\ pending' = <<>>
    /\ state' = "RUNNING"
    /\ start_time' = now
    /\ pc' = "sleep"
    /\ UNCHANGED <<cfg, cron_jobs, task_definitions, scheduler, queue, running,
                   now, log, exit_code, signals, fires, started, late_starts,
                   skipped, execs, caught, escaped, loads, sys_modules,
                   run_task_calls>>

\* ----------------------------------------------------- scheduler thread
\* The decimal digits of a job index: the job store orders the jobs due at
\* the same instant by their id strings "cron_job_<idx>".
RECURSIVE Digits(_)
Digits(n) == IF n < 10 THEN <<n>> ELSE Append(Digits(n \div 10), n % 10)

RECURSIVE SeqLess(_, _)
SeqLess(a, b) ==
    IF a = <<>> THEN b # <<>>
    ELSE IF b = <<>> THEN FALSE
    ELSE IF Head(a) # Head(b) THEN Head(a) < Head(b)
    ELSE SeqLess(Tail(a), Tail(b))

IdLess(i, j) == SeqLess(Digits(i), Digits(j))

RECURSIVE InIdOrder(_)
InIdOrder(S) ==
    IF S = {} THEN <<>>
    ELSE LET i == CHOOSE x \in S : \A y \in S \ {x} : IdLess(x, y)
         IN <<i>> \o InIdOrder(S \ {i})

\* The jobs whose next run time has come.
DueJobs == {i \in DOMAIN jobstore : jobstore[i].next_run_time <= now}

\* A due job is submitted unless max_instances of its runs are in flight.
CanSubmit(i) == instances[i] < max_instances

WorkItems(ids) == [k \in 1..Len(ids) |->
                      [id |-> ids[k], run_time |-> jobstore[ids[k]].next_run_time]]

\* One wake-up of the scheduler thread (_process_jobs): every due job is
\* submitted to the pool or skipped, and gets its next run time.  A wake-up
\* at which nothing is due changes nothing.
ProcessJobs ==
    /\ state = "RUNNING"
    /\ LET due    == DueJobs
           submit == {i \in due : CanSubmit(i)}
           slotOf(i) == <<i, jobstore[i].next_run_time>>
       IN /\ queue' = queue \o WorkItems(SelectSeq(InIdOrder(due), LAMBDA i : i \in submit))
          /\ instances' = [i \in DOMAIN instances |->
                              IF i \in submit THEN instances[i] + 1 ELSE instances[i]]
          /\ fires' = [s \in DOMAIN fires |->
                          IF \E i \in submit : s = slotOf(i) THEN fires[s] + 1 ELSE fires[s]]
          /\ skipped' = skipped \cup {slotOf(i) : i \in due \ submit}
          /\ jobstore' = [i \in DOMAIN jobstore |->
                             IF i \in due
                             THEN [jobstore[i] EXCEPT
                                      !.next_run_time = NextFireAfter(jobstore[i].parts, now)]
                             ELSE jobstore[i]]
    /\ UNCHANGED <<cfg, pc, cron_jobs, task_definitions, scheduler, state,
                   pending, running, now, start_time, log, exit_code, signals,
                   started, late_starts, execs, caught, escaped,
                   loads, sys_modules, run_task_calls>>

\* A minute passes.  The scheduler thread sleeps until the next run time,
\* so while it runs no due job is left unprocessed; and a free worker takes
\* a queued work item at once, so none waits a minute beside a free worker.
AdvanceTime ==
    /\ pc \in {"sleep", "shutdown_wait"}
    /\ now < MaxMinute
    /\ state = "RUNNING" => DueJobs = {}
    /\ queue # <<>> => Cardinality(running) >= max_workers
    /\ now' = now + 1
    /\ UNCHANGED <<cfg, pc, cron_jobs, task_definitions, scheduler, state,
                   pending, jobstore, instances, queue, running, start_time,
                   log, exit_code, signals, fires, started, late_starts,
                   skipped, execs, caught, escaped, loads, sys_modules,
                   run_task_calls>>

\* ---------------------------------------------------------- pool workers
\* Variant of LoadFails: a file that raises while it is executed is not
\* noticed.
LoadFailsOnlyAbsent(kind) == kind = "absent"

\* load_module_from_file returns None (after logging) for a file that does
\* not exist or that raises while it is executed.
LoadFails(kind) == kind \in {"absent", "loaderr"}

\* The None that load_module_from_file returns.
NoModule == <<>>

\* Variant of load_module_from_file: the module object of a path is kept
\* and handed to every later call for that path.
load_module_cached(path, kind, fresh, cache) ==
    IF LoadFails(kind) THEN [module |-> NoModule, cache |-> cache]
    ELSE IF \E c \in cache : c[1] = path
         THEN [module |-> (CHOOSE c \in cache : c[1] = path)[2], cache |-> cache]
    ELSE [module |-> fresh, cache |-> cache \cup {<<path, fresh>>}]

\* load_module_from_file(file_path): None on failure, otherwise the new
\* module object `fresh` that module_from_spec builds and exec_module fills;
\* the object is registered nowhere, so what the loader keeps stays as it was.
load_module_from_file(path, kind, fresh, cache) ==
    IF LoadFails(kind) THEN [module |-> NoModule, cache |-> cache]
    ELSE [module |-> fresh, cache |-> cache]

\* Variant of execute_cron_event_catches: no handler around the body.
execute_cron_event_unguarded(exc) == FALSE

\* Variant of run_task_catches: no handler around the call of run().
run_task_unguarded(exc) == FALSE

\* `except Exception` of execute_cron_event / of run_task.
execute_cron_event_catches(exc) == exc = "Exception"
run_task_catches(exc) == exc = "Exception"

\* The run of a job ends: the executor's callback releases its instance.
Release(id) == [instances EXCEPT ![id] = @ - 1]

\* A free worker of the pool takes the oldest work item and calls
\* execute_cron_event(task_reference, task_definitions), which runs up to
\* the call of event_module.task_id().
WorkerStart ==
    /\ pc # "exited"
    /\ queue # <<>>
    /\ Cardinality(running) < max_workers
    /\ LET item == Head(queue)
           slot == <<item.id, item.run_time>>
           unit == EventUnit(jobstore[item.id].ref)
           ld == load_module_from_file(jobstore[item.id].ref, unit.kind,
                                       <<item.id, item.run_time, "event">>, sys_modules)
       IN /\ queue' = Tail(queue)
          /\ started' = [started EXCEPT ![slot] = @ + 1]
          /\ late_starts' = IF signals > 0 THEN late_starts \cup {slot} ELSE late_starts
          /\ loads' = loads \cup {<<item.id, item.run_time, "event">>}
          /\ sys_modules' = ld.cache
          /\ IF ld.module = NoModule
             THEN /\ log' = log \cup {<<"module_not_loaded", item.id, item.run_time>>,
                                      <<"event_load_failed", item.id, item.run_time>>}
                  /\ instances' = Release(item.id)
                  /\ UNCHANGED running
             ELSE IF unit.kind = "notaskid"
             THEN /\ log' = log \cup {<<"no_task_id_function", item.id, item.run_time>>}
                  /\ instances' = Release(item.id)
                  /\ UNCHANGED running
             ELSE /\ running' = running \cup
                         {[id |-> item.id, run_time |-> item.run_time,
                           at |-> "task_id", tid |-> "", module |-> ld.module]}
                  /\ UNCHANGED <<log, instances>>
    /\ UNCHANGED <<cfg, pc, cron_jobs, task_definitions, scheduler, state,
                   pending, jobstore, now, start_time, exit_code, signals,
                   fires, skipped, execs, caught, escaped, run_task_calls>>

\* Variant of RunTaskEntry: a task id is not looked up in the catalog
\* before the task is run.
RunTaskEntryUnchecked(tid) == "run"

\* run_task(task_id, task_definitions) up to the call of task_module.run():
\* the error it logs before returning, or "run" when run() is called.
RunTaskEntry(tid) ==
    IF tid \notin DOMAIN task_definitions THEN "task_not_found"
    ELSE IF ~task_definitions[tid].has_location \/ task_definitions[tid].location = ""
         THEN "no_location"
    ELSE IF LoadFails(TaskUnit(task_definitions[tid].location)) THEN "task_load_failed"
    ELSE IF TaskUnit(task_definitions[tid].location) = "norun" THEN "no_run_function"
    ELSE "run"

\* `task_id_result is None`: what task_id() returned is None.  An empty
\* string is not None.
IsNone(unit) == unit.kind = "none"

\* run_task reaches its call of load_module_from_file (line 101): the task
\* id is in the catalog and its record has a location.
RunTaskLoads(tid) ==
    /\ tid \in DOMAIN task_definitions
    /\ task_definitions[tid].has_location
    /\ task_definitions[tid].location # ""

\* event_module.task_id() returns or raises; on a task id, run_task runs up
\* to the call of the task unit's run().
EventReturn(w) ==
    /\ w \in running
    /\ w.at = "task_id"
    /\ LET unit == EventUnit(jobstore[w.id].ref)
           slot == <<w.id, w.run_time>>
       IN /\ unit.kind # "hangs"
          /\ IF unit.kind = "raises"
             THEN /\ IF execute_cron_event_catches("Exception")
                     THEN /\ caught' = caught \cup {slot}
                          /\ log' = log \cup {<<"event_error", w.id, w.run_time>>}
                          /\ UNCHANGED escaped
                     ELSE /\ escaped' = escaped \cup {slot}
                          /\ UNCHANGED <<caught, log>>
                  /\ running' = running \ {w}
                  /\ instances' = Release(w.id)
                  /\ UNCHANGED <<execs, run_task_calls, loads, sys_modules>>
             ELSE IF IsNone(unit)
             THEN /\ running' = running \ {w}
                  /\ instances' = Release(w.id)
                  /\ UNCHANGED <<log, execs, caught, escaped, run_task_calls,
                                 loads, sys_modules>>
             ELSE LET entry == RunTaskEntry(unit.tid)
                      fresh == <<w.id, w.run_time, "task">>
                      ld == IF RunTaskLoads(unit.tid)
                            THEN load_module_from_file(
                                     task_definitions[unit.tid].location,
                                     TaskUnit(task_definitions[unit.tid].location),
                                     fresh, sys_modules)
                            ELSE [module |-> NoModule, cache |-> sys_modules]
                  IN /\ run_task_calls' =
                            [run_task_calls EXCEPT ![slot] =
                                Append(@, [tid |-> unit.tid, catalog |-> task_definitions])]
                     /\ loads' = IF RunTaskLoads(unit.tid)
                                 THEN loads \cup {fresh} ELSE loads
                     /\ sys_modules' = ld.cache
                     /\ IF entry = "run"
                        THEN /\ running' = (running \ {w}) \cup
                                    {[w EXCEPT !.at = "run", !.tid = unit.tid,
                                               !.module = ld.module]}
                             /\ execs' = [execs EXCEPT ![slot] = @ + 1]
                             /\ UNCHANGED <<log, instances, caught, escaped>>
                        ELSE /\ log' = log \cup {<<entry, w.id, w.run_time>>}
                             /\ running' = running \ {w}
                             /\ instances' = Release(w.id)
                             /\ UNCHANGED <<execs, caught, escaped>>
    /\ UNCHANGED <<cfg, pc, cron_jobs, task_definitions, scheduler, state,
                   pending, jobstore, queue, now, start_time, exit_code,
                   signals, fires, started, late_starts, skipped>>

\* Variant of run_task_calls_again: a run() that raised is called once more.
run_task_retries_once(kind, calls) == kind = "raises" /\ calls < 2

\* Whether run_task calls run() again after a call that ended as `kind`
\* says, `calls` calls having been made: line 112 is the only call, on
\* no path is it reached twice.
run_task_calls_again(kind, calls) == FALSE

\* task_module.run() returns or raises; run_task logs the outcome and
\* execute_cron_event returns.
TaskReturn(w) ==
    /\ w \in running
    /\ w.at = "run"
    /\ LET kind == TaskUnit(task_definitions[w.tid].location)
           slot == <<w.id, w.run_time>>
       IN /\ kind # "hangs"
          /\ IF run_task_calls_again(kind, execs[slot])
             THEN /\ execs' = [execs EXCEPT ![slot] = @ + 1]
                  /\ UNCHANGED <<log, caught, escaped, running, instances>>
             ELSE /\ IF kind = "raises"
                     THEN IF run_task_catches("Exception")
                          THEN /\ log' = log \cup {<<"task_error", w.id, w.run_time>>}
                               /\ UNCHANGED <<caught, escaped>>
                          ELSE IF execute_cron_event_catches("Exception")
                          THEN /\ log' = log \cup {<<"event_error", w.id, w.run_time>>}
                               /\ UNCHANGED <<caught, escaped>>
                          ELSE /\ escaped' = escaped \cup {slot}
                               /\ UNCHANGED <<caught, log>>
                     ELSE UNCHANGED <<log, caught, escaped>>
                  /\ running' = running \ {w}
                  /\ instances' = Release(w.id)
                  /\ UNCHANGED execs
    /\ UNCHANGED <<cfg, pc, cron_jobs, task_definitions, scheduler, state,
                   pending, jobstore, queue, now, start_time, exit_code,
                   signals, fires, started, late_starts, skipped,
                   loads, sys_modules, run_task_calls>>

\* ------------------------------------------------------ shutdown_handler
\* SIGINT or SIGTERM is delivered once the handlers are registered; the
\* handler runs in the main thread, wherever that thread is.
\*  - global scheduler is None: sys.exit(0);
\*  - scheduler.shutdown(wait=True) on a scheduler that is not running (not
\*    yet started, or already shut down by a handler that is still waiting)
\*    raises SchedulerNotRunningError, which reaches main's
\*    `except Exception`: sys.exit(1);
\*  - otherwise the scheduler stops and the handler waits for the pool.
ShutdownHandler ==
    /\ pc \in {"setup", "start", "sleep", "shutdown_wait"}
    /\ signals' = signals + 1
    /\ IF scheduler = "None"
       THEN /\ exit_code' = GracefulExit
            /\ pc' = "exiting"
            /\ UNCHANGED <<state, log>>
       ELSE IF state = "STOPPED"
       THEN /\ log' = log \cup {<<"fatal", -1, now>>}
            /\ exit_code' = FatalExit
            /\ pc' = "exiting"
            /\ UNCHANGED state
       ELSE /\ state' = "STOPPED"
            /\ pc' = "shutdown_wait"
            /\ UNCHANGED <<exit_code, log>>
    /\ UNCHANGED <<cfg, cron_jobs, task_definitions, scheduler, pending,
                   jobstore, instances, queue, running, now, start_time,
                   fires, started, late_starts, skipped, execs, caught, escaped,
                   loads, sys_modules, run_task_calls>>

\* The pool has nothing queued and nothing running: its threads can be joined.
PoolIdle == queue = <<>> /\ running = {}

\* scheduler.shutdown(wait=True) returns once the pool's threads are joined;
\* the handler then calls sys.exit(0).
ShutdownReturns ==
    /\ pc = "shutdown_wait"
    /\ PoolIdle
    /\ exit_code' = GracefulExit
    /\ pc' = "exiting"
    /\ UNCHANGED <<cfg, cron_jobs, task_definitions, scheduler, state, pending,
                   jobstore, instances, queue, running, now, start_time, log,
                   signals, fires, started, late_starts, skipped, execs,
                   caught, escaped, loads, sys_modules, run_task_calls>>

\* After sys.exit the interpreter joins the pool's worker threads before the
\* process ends.
ProcessExit ==
    /\ pc = "exiting"
    /\ PoolIdle
    /\ pc' = "exited"
    /\ UNCHANGED <<cfg, cron_jobs, task_definitions, scheduler, state, pending,
                   jobstore, instances, queue, running, now, start_time, log,
                   exit_code, signals, fires, started, late_starts, skipped,
                   execs, caught, escaped, loads, sys_modules,
                   run_task_calls>>

\* The scheduler's lifecycle as the design names it.
Lifecycle ==
    IF state = "RUNNING" THEN "Running"
    ELSE IF pc = "shutdown_wait" THEN "Draining"
    ELSE "Stopped"

\* -------------------------------------------------------------- scenarios
At(ref) == Record(EveryMinute, ref)
\* "59 23 * * *": within the modelled run, minute 1 only.
Once(ref) == Record(Expr(V(59), V(23), Star, Star, Star), ref)

\* Dispatch scenarios: every-minute triggers over the kinds of unit.
DispatchJobs ==
    { <<At("event/raises.py"), At("event/example.py")>>,
      <<At("event/stuck.py"), At("event/stuck.py")>>,
      <<At("event/example.py"), At("event/example.py")>>,
      <<At("event/hangs.py"), At("event/none.py")>>,
      <<At("event/stuck.py"), At("event/failing.py")>>,
      <<Once("event/ghost.py"), Once("event/missing.py"), Once("event/broken.py"),
        Once("event/notaskid.py")>>,
      <<Once("event/nowhere.py"), Once("event/gone.py"), Once("event/corrupt.py"),
        Once("event/norun.py")>> }

\* One trigger more than the pool has workers, all due in the same minute;
\* the job the pool takes last (and, in the second list, the one before it)
\* has a unit that returns, every other unit never returns.
PoolIndexes == 0..max_workers
TakenLast == InIdOrder(PoolIndexes)[max_workers + 1]
TakenBeforeLast == InIdOrder(PoolIndexes)[max_workers]
PoolJobs ==
    { [k \in 1..(max_workers + 1) |->
          IF k - 1 = TakenLast THEN At("event/example.py") ELSE At("event/hangs.py")],
      [k \in 1..(max_workers + 1) |->
          IF k - 1 = TakenLast THEN Once("event/example.py")
          ELSE IF k - 1 = TakenBeforeLast THEN Once("event/none.py")
          ELSE Once("event/hangs.py")] }

\* Registration scenarios: every list of at most MaxRecords records, valid
\* or malformed, in any order.
RegistrationRecords ==
    { Once("event/none.py"), NoCronRecord("event/none.py"),
      NoRefRecord(EveryMinute), NotADict }
RECURSIVE SeqsUpTo(_, _)
SeqsUpTo(S, n) ==
    IF n = 0 THEN {<<>>}
    ELSE LET shorter == SeqsUpTo(S, n - 1)
         IN shorter \cup {Append(q, x) : q \in {r \in shorter : Len(r) = n - 1}, x \in S}
RegistrationJobs == SeqsUpTo(RegistrationRecords, MaxRecords)

\* Malformed expressions: a field count other than five, or a value outside
\* the domain of its field.
WithField(i, it) == [k \in 1..9 |-> IF k = 2 * i - 1 THEN it ELSE EveryMinute[k]]
MalformedExpressions ==
    { <<SP>>, <<Star, SP, Star, SP, Star, SP, Star>>, EveryMinute \o <<SP, Star>>,
      <<Star, Star, SP, Star, SP, Star, SP, Star>> }
    \cup {WithField(i, V(MAX_VALUES[i] + 1)) : i \in 1..5}
    \cup {WithField(i, V(MIN_VALUES[i] - 1)) : i \in {3, 4}}
    \cup {WithField(1, Rng(58, 61))}
MalformedJobs ==
    UNION { { <<Record(e, "event/example.py")>>,
              <<Record(e, "event/example.py"), Once("event/none.py")>>,
              <<Once("event/none.py"), Record(e, "event/example.py"),
                Record(<<SP>> \o EveryMinute \o <<SP>>, "event/example.py")>> }
            : e \in MalformedExpressions }
    \cup {<<Record(<<>>, "event/example.py")>>, <<Record(EveryMinute, "")>>}

\* Calendar scenarios: minute 2 of the modelled run is 00:00 of Monday
\* 2024-01-01.  "0 0 * * 1" and "0 0 * * 0" restrict the day of the week,
\* "0 0 1 * 3" the day of the month and the day of the week.
CalendarJobs ==
    { <<Record(Expr(V(0), V(0), Star, Star, V(1)), "event/example.py"),
        Record(Expr(V(0), V(0), Star, Star, V(0)), "event/none.py")>>,
      <<Record(Expr(V(0), V(0), V(1), Star, V(3)), "event/example.py")>> }

\* Decision units that return an empty identifier, under both catalogs.
EmptyIdConfigs ==
    {[cron_file |-> "ok", task_file |-> "ok",
      cron_jobs |-> <<At("event/empty.py"), Once("event/none.py")>>,
      task_definitions |-> c] : c \in {TaskCatalog, EmptyKeyCatalog}}

Configs ==
    {[cron_file |-> "ok", task_file |-> "ok", cron_jobs |-> j,
      task_definitions |-> TaskCatalog] :
        j \in DispatchJobs \cup PoolJobs \cup RegistrationJobs \cup MalformedJobs
              \cup CalendarJobs}
    \cup EmptyIdConfigs
    \cup {[cron_file |-> c, task_file |-> t, cron_jobs |-> <<At("event/example.py")>>,
           task_definitions |-> TaskCatalog] :
            <<c, t>> \in {<<"missing", "ok">>, <<"invalid", "ok">>,
                          <<"ok", "missing">>, <<"ok", "invalid">>}}

\* ------------------------------------------------------- the specification
Init ==
    /\ cfg \in Configs
    /\ pc = "init"
    /\ cron_jobs = <<>>
    /\ task_definitions = <<>>
    /\ scheduler = "None"
    /\ state = "STOPPED"
    /\ pending = <<>>
    /\ jobstore = <<>>
    /\ instances = <<>>
    /\ queue = <<>>
    /\ running = {}
    /\ now = 0
    /\ start_time = -1
    /\ log = {}
    /\ exit_code = -1
    /\ signals = 0
    /\ fires = [s \in Slots |-> 0]
    /\ started = [s \in Slots |-> 0]
    /\ late_starts = {}
    /\ skipped = {}
    /\ execs = [s \in Slots |-> 0]
    /\ caught = {}
    /\ escaped = {}
    /\ run_task_calls = [s \in Slots |-> <<>>]
    /\ loads = {}
    /\ sys_modules = {}

Next ==
    \/ LoadConfig
    \/ SetupScheduler
    \/ StartScheduler
    \/ ProcessJobs
    \/ AdvanceTime
    \/ WorkerStart
    \/ \E w \in running : EventReturn(w)
    \/ \E w \in running : TaskReturn(w)
    \/ ShutdownHandler
    \/ ShutdownReturns
    \/ ProcessExit

Spec == Init /\ [][Next]_vars

\* A step of the program itself (of the main thread past its start-up, of
\* a pool worker), as opposed to the passing of time and the delivery of a
\* signal.
ProgramStep ==
    \/ LoadConfig \/ SetupScheduler \/ StartScheduler
    \/ WorkerStart
    \/ \E w \in running : EventReturn(w)
    \/ \E w \in running : TaskReturn(w)
    \/ ShutdownReturns \/ ProcessExit

\* ------------------------------------------------------ shared vocabulary
\* The registered trigger i matches minute m.
Due(i, m) == i \in DOMAIN jobstore /\ TriggerMatches(jobstore[i].parts, InstantAt(m))

\* Minute m began and ended while the scheduler was Running.
RanThrough(m) == state = "RUNNING" /\ start_time >= 0 /\ start_time < m /\ m < now

\* The call w of execute_cron_event is inside a unit that never returns.
Hung(w) ==
    \/ w.at = "task_id" /\ EventUnit(jobstore[w.id].ref).kind = "hangs"
    \/ w.at = "run" /\ TaskUnit(task_definitions[w.tid].location) = "hangs"

BadConfig == cfg.cron_file # "ok" \/ cfg.task_file # "ok"

\* ------------------------------------------------------------------- C1
\* C1: an exception raised by task_id() is caught inside
\* execute_cron_event: it never leaves it, the step that handles it ends
\* that one run and touches nothing else (no other run, no queue, no job,
\* not the scheduler), every other trigger due in the minute of the failed
\* run was processed in that same tick (submitted to the pool; a run dropped
\* because its own trigger's earlier run is still in flight is the subject
\* of C2), and without a shutdown signal the scheduler stays Running.
C1_Isolated ==
    /\ escaped = {}
    /\ \A s \in caught : \A b \in DOMAIN jobstore \ {s[1]} :
          Due(b, s[2]) => fires[<<b, s[2]>>] = 1 \/ <<b, s[2]>> \in skipped
    /\ (caught # {} /\ signals = 0) => state = "RUNNING"

C1_HandlingStep ==
    caught' # caught =>
        /\ \E w \in running :
              /\ running' = running \ {w}
              /\ caught' = caught \cup {<<w.id, w.run_time>>}
              /\ \A i \in DOMAIN instances \ {w.id} : instances'[i] = instances[i]
        /\ UNCHANGED <<pc, scheduler, state, jobstore, queue, now, exit_code,
                       fires, started, skipped, execs, escaped>>

C2_ExactlyOncePerMinute ==
    \A i \in DOMAIN jobstore : \A m \in Minutes :
        (RanThrough(m) /\ Due(i, m)) => fires[<<i, m>>] = 1

\* ------------------------------------------------------------------- C3
\* C3: every trigger due in minute M is handed to a worker during M: once M
\* is over, a run submitted for M has been taken by a worker (or a worker
\* is free to take it at once); it is not left waiting behind the runs of
\* other triggers.
C3_AllDueDispatched ==
    \A i \in DOMAIN jobstore : \A m \in Minutes :
        (RanThrough(m) /\ Due(i, m) /\ fires[<<i, m>>] >= 1) =>
            \/ started[<<i, m>>] >= 1
            \/ Cardinality(running) < max_workers

\* ------------------------------------------------------------------- C4
\* C4: blocking is confined to the worker that hangs: a run that waits to
\* start is never held up by hung runs alone, i.e. whenever a run is queued,
\* a worker is free or some busy worker is in a unit that can return.
C4_HangingConfined ==
    queue # <<>> =>
        \/ Cardinality(running) < max_workers
        \/ \E w \in running : ~Hung(w)

\* ------------------------------------------------------------------- C5
\* C5: if a termination signal is handled while a task is mid-execution,
\* the process eventually exits, even when the task never returns: the
\* process is never left with a signal handled, a task inside run(), and no
\* step of the program possible (a worker that outlives the grace period
\* would be abandoned, and the exit would go on).
C5_ShutdownTerminates ==
    (signals > 0 /\ \E w \in running : w.at = "run") => ENABLED ProgramStep

\* ------------------------------------------------------------------- C6
\* C6: the lifecycle only moves Stopped -> Running -> Draining -> Stopped,
\* and once a shutdown signal has been handled no call of
\* execute_cron_event is started any more.
C6_LifecycleStep ==
    /\ Lifecycle' # Lifecycle =>
          <<Lifecycle, Lifecycle'>> \in {<<"Stopped", "Running">>,
                                         <<"Running", "Draining">>,
                                         <<"Draining", "Stopped">>}
    /\ signals > 0 => started' = started

\* C6 (lifecycle ordering): every step is a C6_LifecycleStep.
C6_LifecycleOrdering == [][C6_LifecycleStep]_vars

\* ------------------------------------------------------------------- C7
\* C7: wherever main is once the handlers are registered, a signal makes
\* the process exit with code 0.
C7_SignalExitsZero ==
    (signals > 0 /\ exit_code # -1) => exit_code = 0

\* ------------------------------------------------------------------- C8
\* C8: with a configuration file missing or not parseable the daemon never
\* reaches Running, registers and fires no trigger, invokes no unit, and
\* exits with a non-zero code.
C8_FatalConfigError ==
    BadConfig =>
        /\ pc \in {"init", "exiting", "exited"}
        /\ state = "STOPPED" /\ scheduler = "None"
        /\ pending = <<>> /\ jobstore = <<>>
        /\ queue = <<>> /\ running = {}
        /\ \A s \in Slots : fires[s] = 0 /\ started[s] = 0 /\ execs[s] = 0
        /\ pc \in {"exiting", "exited"} => exit_code \notin {-1, 0}

\* Witness of C8: task-definition.json is not valid JSON and the process has
\* exited with a non-zero code.
C8_Witness ==
    /\ cfg.task_file = "invalid"
    /\ pc = "exited"
    /\ exit_code = 1

\* ------------------------------------------------------------------- C9
\* The record lacks a cron expression or lacks an event reference.
Lacks(job) ==
    \/ ~job.is_dict
    \/ ~job.has_cron \/ job.cron = <<>>
    \/ ~job.has_ref \/ job.ref = ""

\* The whitespace-separated fields of an expression, counted on the text:
\* a field starts at a token that is not a blank and follows a blank or
\* nothing.
FieldStarts(e) == {k \in 1..Len(e) : e[k] # SP /\ (k = 1 \/ e[k - 1] = SP)}
FieldCount(e) == Cardinality(FieldStarts(e))
FieldAt(e, k) == Cardinality({j \in FieldStarts(e) : j <= k})

\* A value outside the domain of its field: minute 0-59, hour 0-23,
\* day-of-month 1-31, month 1-12, day-of-week 0-6.
Domain(f) ==
    CASE f = 1 -> 0..59 [] f = 2 -> 0..23 [] f = 3 -> 1..31 [] f = 4 -> 1..12
      [] f = 5 -> 0..6
OutOfDomain(e) ==
    \E k \in 1..Len(e) :
        /\ e[k].t = "range"
        /\ FieldAt(e, k) \in 1..5
        /\ \E v \in {e[k].first, e[k].last} : v \notin Domain(FieldAt(e, k))

MalformedExpression(e) == FieldCount(e) # 5 \/ OutOfDomain(e)

RecordAt(idx) == cfg.cron_jobs[idx + 1]
ValidRecord(job) == ~Lacks(job) /\ ~MalformedExpression(job.cron)

\* The identities of the registered triggers, before and after start().
Registered == {pending[k].id : k \in 1..Len(pending)} \cup DOMAIN jobstore

\* C9: for every list of records in cron.json, valid and malformed in any
\* mix and order, setup_scheduler completes (main gets past it, unless a
\* signal ends the process first), has logged an error naming each record
\* that lacks a cron expression or an event reference, and has registered
\* exactly the valid records, each under its position; the scheduler then
\* starts with these triggers.
C9_MalformedSkipped ==
    ~BadConfig =>
        /\ pc \notin {"init", "setup"} => (scheduler = "created" \/ signals > 0)
        /\ scheduler = "created" =>
              /\ \A idx \in Indexes :
                    Lacks(RecordAt(idx)) => <<"invalid_definition", idx>> \in log
              /\ Registered = {idx \in Indexes : ValidRecord(RecordAt(idx))}
        /\ pc = "sleep" => state = "RUNNING"

\* ------------------------------------------------------------------ C10
\* C10: a record whose expression has a field count other than five or a
\* value outside the domain of its field gets an error logged by
\* setup_scheduler, is never registered, never fires and never has its
\* event-decision unit invoked; the valid records of the same list are
\* registered all the same.
C10_MalformedNeverFires ==
    \A idx \in Indexes :
        LET job == RecordAt(idx)
        IN (job.is_dict /\ job.has_cron /\ MalformedExpression(job.cron)) =>
              /\ idx \notin Registered
              /\ \A m \in Minutes : fires[<<idx, m>>] = 0 /\ started[<<idx, m>>] = 0
              /\ scheduler = "created" =>
                    /\ \E e \in log : Len(e) = 2 /\ e[2] = idx
                    /\ \A o \in Indexes : ValidRecord(RecordAt(o)) => o \in Registered

\* Witness of C10: a list with a malformed expression (position 1: an
\* out-of-domain or miscounted expression) between two valid records; the
\* error is logged, and both valid triggers have fired in minute 1.
C10_Witness ==
    /\ Len(cfg.cron_jobs) = 3
    /\ OutOfDomain(RecordAt(1).cron)
    /\ \E e \in log : Len(e) = 2 /\ e[2] = 1
    /\ Registered = {0, 2}
    /\ fires[<<0, 1>>] = 1 /\ started[<<0, 1>>] = 1
    /\ \A m \in Minutes : started[<<1, m>>] = 0
    /\ now = MaxMinute

\* ------------------------------------------------------------------ C11
\* Two positions of cron.json that hold the same valid record.
Duplicates ==
    {d \in Indexes \X Indexes :
        d[1] < d[2] /\ RecordAt(d[1]) = RecordAt(d[2]) /\ ValidRecord(RecordAt(d[1]))}

\* The run of trigger k for minute m waits in the pool's queue.
Queued(k, m) == \E q \in 1..Len(queue) : queue[q].id = k /\ queue[q].run_time = m

Finished(s) ==
    /\ started[s] >= 1
    /\ ~\E w \in running : <<w.id, w.run_time>> = s

\* The decision unit of trigger i returns a task id that is not a key of
\* the catalog.
ReturnsUnknownId(i) ==
    /\ i \in DOMAIN jobstore
    /\ EventUnit(jobstore[i].ref).kind = "returns"
    /\ EventUnit(jobstore[i].ref).tid \notin DOMAIN task_definitions

C12_NothingRun ==
    \A s \in Slots :
        ReturnsUnknownId(s[1]) =>
            /\ execs[s] = 0
            /\ <<s[1], s[2], "task">> \notin loads
            /\ s \notin escaped
            /\ Finished(s) => <<"task_not_found", s[1], s[2]>> \in log

\* The step in which run_task logs "task not found": it ends that one call
\* and changes nothing else.
C12_NotFoundStep ==
    (\E e \in log' \ log : e[1] = "task_not_found") =>
        /\ \E w \in running :
              /\ running' = running \ {w}
              /\ log' = log \cup {<<"task_not_found", w.id, w.run_time>>}
              /\ \A i \in DOMAIN instances \ {w.id} : instances'[i] = instances[i]
        /\ UNCHANGED <<cfg, pc, cron_jobs, task_definitions, scheduler, state,
                       pending, jobstore, queue, now, start_time, exit_code,
                       signals, fires, started, late_starts, skipped, execs,
                       caught, escaped, loads, sys_modules>>

\* C12: for every task id that is not a key of the catalog, run_task logs
\* an error, loads no task unit, calls no run(), lets no exception escape,
\* and its step changes nothing but the log and the end of that one call.
C12_UnknownTaskId == []C12_NothingRun /\ [][C12_NotFoundStep]_vars

\* Witness of C12: the unit of trigger 0 returned "ghost", which the catalog
\* does not hold; the call has ended with the error logged.
C12_Witness ==
    /\ ReturnsUnknownId(0)
    /\ Finished(<<0, 1>>)
    /\ <<"task_not_found", 0, 1>> \in log
    /\ execs[<<0, 1>>] = 0

\* ------------------------------------------------------------------ C13
\* The decision unit of trigger i returns the empty/null signal: no value,
\* or an empty identifier.
ReturnsEmptySignal(i) ==
    /\ i \in DOMAIN jobstore
    /\ \/ EventUnit(jobstore[i].ref).kind = "none"
       \/ /\ EventUnit(jobstore[i].ref).kind = "returns"
          /\ EventUnit(jobstore[i].ref).tid = ""

\* The decision unit of trigger i returns a non-empty task identifier.
ReturnsId(i) ==
    /\ i \in DOMAIN jobstore
    /\ EventUnit(jobstore[i].ref).kind = "returns"
    /\ EventUnit(jobstore[i].ref).tid # ""

\* The call of execute_cron_event for slot s is past task_id().
PastDecision(s) ==
    /\ started[s] >= 1
    /\ ~\E w \in running : <<w.id, w.run_time>> = s /\ w.at = "task_id"

\* C13: a dispatch whose decision unit returns the empty/null signal (no
\* value, or an empty identifier) loads and executes no task unit; a
\* dispatch whose decision unit returns a non-empty identifier calls
\* run_task exactly once, with exactly that identifier and the whole,
\* unmodified catalog.
C13_DecisionForwarding ==
    \A s \in Slots :
        /\ ReturnsEmptySignal(s[1]) =>
              execs[s] = 0 /\ <<s[1], s[2], "task">> \notin loads
        /\ (ReturnsId(s[1]) /\ PastDecision(s)) =>
              run_task_calls[s] =
                  << [tid |-> EventUnit(jobstore[s[1]].ref).tid,
                      catalog |-> cfg.task_definitions] >>

\* ------------------------------------------------------------------ C14
\* The identifier that the decision unit of trigger i returns is valid:
\* run_task reaches the call of the task unit's run().
ReturnsValidId(i) ==
    /\ i \in DOMAIN jobstore
    /\ EventUnit(jobstore[i].ref).kind = "returns"
    /\ RunTaskEntry(EventUnit(jobstore[i].ref).tid) = "run"

\* C14: run() is called exactly once per call of run_task that reaches it,
\* whether it returns or raises, and never again (no retry): a fire whose
\* decision unit returned a valid identifier has exactly one task execution
\* from the moment run_task has called run(), and still exactly one when
\* the dispatch has ended.
C14_SingleAttempt ==
    \A s \in Slots :
        /\ execs[s] <= Len(run_task_calls[s])
        /\ execs[s] <= 1
        /\ (ReturnsValidId(s[1]) /\ PastDecision(s)) => execs[s] = 1

\* Witness of C14: the task of trigger 1 raised in minute 1, the dispatch
\* has ended with the error logged, and run() was called once.
C14_Witness ==
    /\ cfg.cron_jobs = <<At("event/stuck.py"), At("event/failing.py")>>
    /\ Finished(<<1, 1>>)
    /\ <<"task_error", 1, 1>> \in log
    /\ execs[<<1, 1>>] = 1

\* ------------------------------------------------------------------ C15
\* The task unit that the decision unit of trigger i selects raises in run().
TaskRaises(i) ==
    /\ ReturnsValidId(i)
    /\ TaskUnit(task_definitions[EventUnit(jobstore[i].ref).tid].location) = "raises"

\* The runs of trigger i submitted and not ended.
InFlight(i) ==
    Cardinality({q \in 1..Len(queue) : queue[q].id = i})
        + Cardinality({w \in running : w.id = i})

\* A failure of run() is handled where it happens: the dispatch that has
\* ended left the error record of run_task, none of execute_cron_event,
\* and no exception; its instance is released; the scheduler goes on
\* processing every trigger in every later minute.
C15_Contained ==
    /\ escaped = {}
    /\ \A i \in DOMAIN instances : instances[i] = InFlight(i)
    /\ \A s \in Slots :
          (TaskRaises(s[1]) /\ Finished(s)) =>
              /\ <<"task_error", s[1], s[2]>> \in log
              /\ <<"event_error", s[1], s[2]>> \notin log
              /\ \A k \in DOMAIN jobstore : \A m \in Minutes :
                    (m > s[2] /\ RanThrough(m) /\ Due(k, m)) =>
                        fires[<<k, m>>] = 1 \/ <<k, m>> \in skipped

\* The step in which run_task logs the failure of run(): it ends that one
\* dispatch and changes no other dispatch, no job and not the scheduler.
C15_FailureStep ==
    (\E e \in log' \ log : e[1] = "task_error") =>
        /\ \E w \in running :
              /\ running' = running \ {w}
              /\ log' = log \cup {<<"task_error", w.id, w.run_time>>}
              /\ \A i \in DOMAIN instances \ {w.id} : instances'[i] = instances[i]
        /\ UNCHANGED <<pc, scheduler, state, jobstore, queue, now, exit_code,
                       fires, started, skipped, execs, caught, escaped>>

Abandoned(i) ==
    /\ i \in DOMAIN jobstore
    /\ LET unit == EventUnit(jobstore[i].ref)
       IN \/ unit.kind \in {"absent", "loaderr", "notaskid"}
          \/ /\ unit.kind = "returns"
             /\ unit.tid \in DOMAIN task_definitions
             /\ \/ ~task_definitions[unit.tid].has_location
                \/ TaskUnit(task_definitions[unit.tid].location)
                       \in {"absent", "loaderr", "norun"}

\* C16: an abandoned dispatch executes no task and lets no exception
\* escape, and when it has ended at least one error record of that
\* dispatch is in the log.
C16_AbandonedInvocations ==
    \A s \in Slots :
        Abandoned(s[1]) =>
            /\ execs[s] = 0
            /\ s \notin escaped
            /\ Finished(s) =>
                  \E e \in log : Len(e) = 3 /\ e[2] = s[1] /\ e[3] = s[2]

\* Witness of C16: four dispatches were abandoned in the task runner (no
\* location, unit not found, unit not loadable, no run function), each has
\* ended with its error record and without a task execution.
C16_Witness ==
    /\ cfg.cron_jobs = <<Once("event/nowhere.py"), Once("event/gone.py"),
                         Once("event/corrupt.py"), Once("event/norun.py")>>
    /\ \A i \in 0..3 : Abandoned(i) /\ Finished(<<i, 1>>) /\ execs[<<i, 1>>] = 0
    /\ {<<"no_location", 0, 1>>, <<"task_load_failed", 1, 1>>,
        <<"task_load_failed", 2, 1>>, <<"no_run_function", 3, 1>>} \subseteq log

\* ------------------------------------------------------------------ C17
\* The day of the week of an instant as cron numbers it: 0 = Sunday,
\* 1 = Monday, ..., 6 = Saturday.
CronWeekday(inst) == (inst.weekday + 1) % 7

\* The field of a registered trigger is "*".
Unrestricted(parts, i) == Len(parts[i]) = 1 /\ parts[i][1] = Star

\* Field i of the trigger matches value v.
FieldMatches(parts, i, v) ==
    \E k \in 1..Len(parts[i]) : ItemMatches(i, parts[i][k], v)

\* The fire set of cron for a trigger whose day-of-month field is "*":
\* minute, hour and month match and the day of the week, in cron's
\* numbering, matches.
CronMatches(parts, inst) ==
    /\ FieldMatches(parts, 1, inst.minute)
    /\ FieldMatches(parts, 2, inst.hour)
    /\ FieldMatches(parts, 4, inst.month)
    /\ FieldMatches(parts, 5, CronWeekday(inst))

\* C17: the fire set of a registered trigger is the fire set of cron, with
\* the day of the week numbered as cron numbers it (1 = Monday): a trigger
\* whose day-of-month field is "*" is processed in a minute the scheduler
\* ran through exactly when cron's fire set holds that minute; "0 0 * * 1"
\* fires at 00:00 of a Monday and of no other day.
C17_DayOfWeekConvention ==
    \A k \in DOMAIN jobstore : \A m \in Minutes :
        (RanThrough(m) /\ Unrestricted(jobstore[k].parts, 3)) =>
            ((fires[<<k, m>>] >= 1 \/ <<k, m>> \in skipped)
                <=> CronMatches(jobstore[k].parts, InstantAt(m)))

\* ------------------------------------------------------------------ C18
\* C18: a registered trigger whose day-of-month and day-of-week fields are
\* both restricted fires in a minute when its minute, hour and month
\* fields match and the day-of-month field matches or the day-of-week
\* field matches: the day of the month alone is enough.
C18_DayFieldsCombineWithOr ==
    \A k \in DOMAIN jobstore : \A m \in Minutes :
        LET parts == jobstore[k].parts
            inst == InstantAt(m)
        IN (/\ RanThrough(m)
            /\ ~Unrestricted(parts, 3)
            /\ ~Unrestricted(parts, 5)
            /\ FieldMatches(parts, 1, inst.minute)
            /\ FieldMatches(parts, 2, inst.hour)
            /\ FieldMatches(parts, 4, inst.month)
            /\ \/ FieldMatches(parts, 3, inst.day)
               \/ FieldMatches(parts, 5, inst.weekday)
               \/ FieldMatches(parts, 5, CronWeekday(inst)))
           => (fires[<<k, m>>] >= 1 \/ <<k, m>> \in skipped)

\* ------------------------------------------------------------------ C19
\* The registered triggers: identity, schedule and event reference of
\* every job of the scheduler.
Triggers ==
    {[id |-> pending[k].id, parts |-> pending[k].parts, ref |-> pending[k].ref] :
        k \in 1..Len(pending)}
    \cup {[id |-> i, parts |-> jobstore[i].parts, ref |-> jobstore[i].ref] :
            i \in DOMAIN jobstore}

\* The module object of the unit that the call w is executing.
OwnModule(w) == <<w.id, w.run_time, IF w.at = "task_id" THEN "event" ELSE "task">>

\* After start-up the catalog is the one that was loaded, the loader keeps
\* no module object, and every call in progress executes a module object
\* that was loaded by this call and is held by no other call.
C19_NothingShared ==
    start_time >= 0 =>
        /\ task_definitions = cfg.task_definitions
        /\ sys_modules = {}
        /\ \A w \in running : w.module = OwnModule(w)
        /\ \A v, w \in running : v # w => v.module # w.module

\* A step of a dispatch (a worker begins execute_cron_event, task_id()
\* returns or raises, run_task runs, run() returns or raises) leaves the
\* catalog and the registered triggers as they were.
C19_DispatchStep ==
    (started' # started \/ running' # running \/ loads' # loads
        \/ run_task_calls' # run_task_calls \/ execs' # execs) =>
        /\ task_definitions' = task_definitions
        /\ Triggers' = Triggers
        /\ UNCHANGED <<cron_jobs, jobstore, pending>>

\* C19: after start-up every step of every dispatch, in any interleaving
\* of the workers, leaves the task catalog and the set of registered
\* triggers unchanged, and no loaded unit is kept or shared between two
\* invocations.
C19_ReadOnlyConfiguration == []C19_NothingShared /\ [][C19_DispatchStep]_vars

\* Witness of C19: two triggers with the same event unit; both dispatches
\* are inside run() of the same task unit at the same time, each with its
\* own module object.
C19_Witness ==
    /\ cfg.cron_jobs = <<At("event/stuck.py"), At("event/stuck.py")>>
    /\ \E v, w \in running :
          /\ v.id = 0 /\ w.id = 1
          /\ v.at = "run" /\ w.at = "run"
          /\ v.module # w.module

\* ------------------------------------------------------------------ C20
\* C20: every execution of a task unit belongs to one dispatch, begun for
\* a fire of a registered trigger in a minute of its schedule after the
\* scheduler was started; the decision unit of that dispatch returned the
\* task's identifier, a key of the catalog, and run_task was called with
\* it before run(); a dispatch executes at most one task, so executions
\* never exceed dispatches begun, which never exceed fires; nothing is
\* dispatched or executed before the scheduler is running.
C20_Causality ==
    /\ \A s \in Slots :
          /\ execs[s] <= started[s]
          /\ started[s] <= fires[s]
          /\ fires[s] <= 1
          /\ execs[s] >= 1 =>
                /\ s[1] \in DOMAIN jobstore
                /\ start_time >= 0 /\ s[2] > start_time
                /\ Due(s[1], s[2])
                /\ EventUnit(jobstore[s[1]].ref).kind = "returns"
                /\ EventUnit(jobstore[s[1]].ref).tid \in DOMAIN task_definitions
                /\ Len(run_task_calls[s]) = 1
                /\ run_task_calls[s][1].tid = EventUnit(jobstore[s[1]].ref).tid
    /\ \A w \in running :
          w.at = "run" =>
              /\ execs[<<w.id, w.run_time>>] = 1
              /\ w.tid = EventUnit(jobstore[w.id].ref).tid
    /\ start_time < 0 =>
          /\ running = {} /\ queue = <<>>
          /\ \A s \in Slots : fires[s] = 0 /\ started[s] = 0 /\ execs[s] = 0

\* Witness of C20: trigger 0 fired in minute 1, its decision unit returned
\* "stuck", and the dispatch is inside run() of that task.
C20_Witness ==
    /\ cfg.cron_jobs = <<At("event/stuck.py"), At("event/failing.py")>>
    /\ fires[<<0, 1>>] = 1
    /\ execs[<<0, 1>>] = 1
    /\ \E w \in running : w.id = 0 /\ w.run_time = 1 /\ w.at = "run" /\ w.tid = "stuck"

====
